---- MODULE Spec2Model ----
(***************************************************************************)
(* Model of autolabel.py: the batch driver (main, load_rows_from_xlsx,     *)
(* write_files_in_xlsx) and the per-image pipeline of process_image        *)
(* (resize checks, JPEG quality search, label geometry, save).             *)
(***************************************************************************)
EXTENDS Integers, Sequences, FiniteSets, TLC

(* ------------------------------ bounds --------------------------------- *)
MaxRows == 2        \* spreadsheet rows modelled below the configuration row
MaxDim == 4         \* largest source image width / height
MaxRes == 3         \* largest max_res_x / max_res_y
MaxMb == 2          \* largest max_size, in megabytes
MaxTests == 21      \* encoder calls followed in the quality loop
MaxFont == 3        \* largest font_size
MaxText == 2        \* largest measured text width / height

(* ------------------------- program constants --------------------------- *)
FirstRow == 3       \* index = 3 in load_rows_from_xlsx
PopulateRow == 3    \* row=file_list.index(file) + 3 in write_files_in_xlsx
StartQuality == 90  \* q = 90
QualityStep == 5    \* q -= 5
BytesPerMb == 1024 * 1024

VARIABLES
    \* batch driver (fs0 and events record the initial file system and the
    \* file-system operations made so far)
    pc, populating_mode, disable_labeling, sheet, b3_was_empty, saves,
    file_dict, output_folder, fs, fs0, key_index, events,
    \* resize stage of process_image
    rpc, orig_size, image_size, size_after_x, max_res_x, max_res_y,
    \* quality loop, label drawing and save of process_image
    spc, max_size, q, last_size, tested, bitmap, checked_bitmap,
    printed_size, file_size, saved_bitmap,
    \* label geometry of process_image
    lpc, label_image, text_size, font_size, corner, rectangle_coords, text_xy

driverVars == <<pc, populating_mode, disable_labeling, sheet, b3_was_empty,
                saves, file_dict, output_folder, fs, fs0, key_index, events>>
resizeVars == <<rpc, orig_size, image_size, size_after_x, max_res_x, max_res_y>>
searchVars == <<spc, max_size, q, last_size, tested, bitmap, checked_bitmap,
                printed_size, file_size, saved_bitmap>>
labelVars == <<lpc, label_image, text_size, font_size, corner,
               rectangle_coords, text_xy>>
vars == <<driverVars, resizeVars, searchVars, labelVars>>

(* ----------------------------- file paths ------------------------------ *)
\* A file name is the sequence of its '.'-separated pieces; a cell string may
\* spell a path with a redundant separator (dbl), which Path() drops.
Dirs == {"d1", "d2"}
NoPath == [dir |-> "None", name |-> <<>>, dbl |-> FALSE]
CellStrings ==
    { [dir |-> "d1", name |-> <<"a", "jpg">>, dbl |-> FALSE],
      [dir |-> "d1", name |-> <<"a", "jpg">>, dbl |-> TRUE],
      [dir |-> "d1", name |-> <<"a", "png">>, dbl |-> FALSE],
      [dir |-> "d2", name |-> <<"a", "b", "jpg">>, dbl |-> FALSE] }
None == "None"
Captions == {"c1"}
SampleText == "sample"
Rows == [B : CellStrings \cup {NoPath}, C : Captions \cup {None}]
\* the modelled part of the worksheet: the rows right below the configuration row
SheetRows == 3..(2 + MaxRows)

\* pathlib.Path(cell): redundant separators disappear
Path(cell) == [dir |-> cell.dir, name |-> cell.name]

\* ws['B' + str(index)].value / ws['C' + str(index)].value
\* (the sheet is indexed by spreadsheet row number; rows outside it are empty)
CellB(ws, index) == IF index \in DOMAIN ws THEN ws[index].B ELSE NoPath
CellC(ws, index) == IF index \in DOMAIN ws THEN ws[index].C ELSE None

\* (variant: an existing key keeps its first value)
DictSetKeepFirst(d, key, text) ==
    IF \E i \in 1..Len(d) : d[i].path = key
    THEN d
    ELSE Append(d, [path |-> key, text |-> text])

\* file_dict[key] = text on an insertion-ordered dict
DictSet(d, key, text) ==
    IF \E i \in 1..Len(d) : d[i].path = key
    THEN [i \in 1..Len(d) |-> IF d[i].path = key THEN [path |-> key, text |-> text] ELSE d[i]]
    ELSE Append(d, [path |-> key, text |-> text])

\* text = ws['C..'].value, replaced by sample_text when None
RowText(ws, index, sample_text) ==
    IF CellC(ws, index) = None THEN sample_text ELSE CellC(ws, index)

RECURSIVE load_rows_loop(_, _, _, _)
load_rows_loop(ws, sample_text, index, d) ==
    IF CellB(ws, index) # NoPath
    THEN load_rows_loop(ws, sample_text, index + 1,
                        DictSet(d, Path(CellB(ws, index)), RowText(ws, index, sample_text)))
    ELSE d

\* (variant: the scan starts one row too low)
load_rows_from_row_4(ws, sample_text) ==
    LET d == load_rows_loop(ws, sample_text, FirstRow + 1, <<>>)
    IN  IF d # <<>> THEN [isNone |-> FALSE, items |-> d]
                    ELSE [isNone |-> TRUE, items |-> <<>>]

load_rows_from_xlsx(ws, sample_text) ==
    LET d == load_rows_loop(ws, sample_text, FirstRow, <<>>)
    IN  IF d # <<>> THEN [isNone |-> FALSE, items |-> d]
                    ELSE [isNone |-> TRUE, items |-> <<>>]

NoneDict == [isNone |-> TRUE, items |-> <<>>]

\* (variant: split('.')[0], the part before the first dot)
SplitFirstStem(name) == <<name[1]>>

\* output_folder / (path.name.rsplit('.', 1)[0] + '_edit.jpg')
RSplitStem(name) == IF Len(name) > 1 THEN SubSeq(name, 1, Len(name) - 1) ELSE name
OutputName(path) == [stem |-> RSplitStem(path.name), tail |-> "_edit.jpg"]

\* list(file_dict.keys())[0].parent / 'output'
OutputFolderOf(d) == d.items[1].path.dir

(* --------------------------- directory scan ---------------------------- *)
\* Entries os.scandir may list in the folder named by B2.
DirEntries ==
    { [dir |-> "d1", name |-> <<"a", "jpg">>, isFile |-> TRUE],
      [dir |-> "d1", name |-> <<"a", "png">>, isFile |-> TRUE],
      [dir |-> "d1", name |-> <<"n", "txt">>, isFile |-> TRUE],
      [dir |-> "d1", name |-> <<"output">>, isFile |-> FALSE],
      [dir |-> "d2", name |-> <<"a", "b", "jpg">>, isFile |-> TRUE] }

\* entry.is_file() and path ends with jpeg / jpg / png
IsListed(entry) ==
    entry.isFile /\ entry.name[Len(entry.name)] \in {"jpeg", "jpg", "png"}

RECURSIVE FilterSeq(_)
FilterSeq(s) ==
    IF s = <<>> THEN <<>>
    ELSE IF IsListed(Head(s)) THEN <<Head(s)>> \o FilterSeq(Tail(s))
         ELSE FilterSeq(Tail(s))

\* work_sheet.cell(row=file_list.index(file) + 3, column=2).value = file.path
WriteFileList(ws, file_list) ==
    [row \in DOMAIN ws |->
        IF row - PopulateRow + 1 \in 1..Len(file_list)
        THEN [ws[row] EXCEPT !.B = [dir |-> file_list[row - PopulateRow + 1].dir,
                                     name |-> file_list[row - PopulateRow + 1].name,
                                     dbl |-> FALSE]]
        ELSE ws[row]]

Scans ==
    { s \in UNION { [1..n -> DirEntries] : n \in 0..MaxRows } :
        /\ \A i, j \in DOMAIN s : i # j => s[i] # s[j]
        /\ \A i, j \in DOMAIN s : s[i].dir = s[j].dir }

(* ----------------------------- file system ----------------------------- *)
\* fs[d] is the node d/output: absent, a regular file, or a directory
\* holding output files.
StaleFile == [name |-> [stem |-> <<"a">>, tail |-> "_edit.jpg"],
              run |-> "previous", src |-> NoPath, text |-> None]
Absent == [kind |-> "absent", files |-> {}]
Nodes == { Absent, [kind |-> "file", files |-> {}],
           [kind |-> "dir", files |-> {StaleFile}] }

\* image.save(output_file, ...): creates or overwrites the file of that name
SaveFile(node, name, path, text) ==
    [node EXCEPT !.files =
        { f \in node.files : f.name # name }
        \cup { [name |-> name, run |-> "current",
                src |-> [dir |-> path.dir, name |-> path.name, dbl |-> FALSE],
                text |-> text] }]

(* ------------------------------- main ---------------------------------- *)
NoKey == [dir |-> "None", name |-> <<>>]
Event(op, path, text) == [op |-> op, path |-> path, text |-> text]

ResizeIdle ==
    /\ rpc = "idle" /\ orig_size = <<1, 1>> /\ image_size = <<1, 1>>
    /\ size_after_x = <<1, 1>> /\ max_res_x = 1 /\ max_res_y = 1
SearchIdle ==
    /\ spc = "idle" /\ max_size = 0 /\ q = StartQuality /\ last_size = 0
    /\ tested = <<>> /\ bitmap = "resized" /\ checked_bitmap = "none"
    /\ printed_size = 0 /\ file_size = 0 /\ saved_bitmap = "none"
LabelIdle ==
    /\ lpc = "idle" /\ label_image = <<1, 1>> /\ text_size = <<0, 0>>
    /\ font_size = 1 /\ corner = <<1, 1>>
    /\ rectangle_coords = <<<<0, 0>>, <<0, 0>>>> /\ text_xy = <<0, 0>>
DriverIdle ==
    /\ pc = "idle" /\ populating_mode = FALSE /\ disable_labeling = FALSE
    /\ sheet = [row \in SheetRows |-> [B |-> NoPath, C |-> None]]
    /\ b3_was_empty = TRUE /\ saves = 0 /\ file_dict = NoneDict
    /\ output_folder = "None" /\ fs = [d \in Dirs |-> Absent] /\ fs0 = fs
    /\ key_index = 0 /\ events = <<>>

Init ==
    /\ pc = "start"
    /\ populating_mode \in BOOLEAN
    /\ disable_labeling \in BOOLEAN
    /\ sheet \in [SheetRows -> Rows]
    /\ b3_was_empty = (sheet[3].B = NoPath)
    /\ saves = 0
    /\ file_dict = NoneDict
    /\ output_folder = "None"
    /\ fs \in [Dirs -> Nodes]
    /\ fs0 = fs
    /\ key_index = 0
    /\ events = <<>>
    /\ ResizeIdle /\ SearchIdle /\ LabelIdle

\* max_res_x, ..., font_size = load_defaults(args.table_path)
LoadDefaults ==
    /\ pc = "start"
    /\ pc' = "populate"
    /\ UNCHANGED <<fs0, populating_mode, disable_labeling, sheet, b3_was_empty, saves,
                   file_dict, output_folder, fs, key_index, events>>
    /\ UNCHANGED <<resizeVars, searchVars, labelVars>>

\* if args.populating_mode: write_files_in_xlsx(args.table_path)
WriteFilesInXlsx ==
    /\ pc = "populate"
    /\ populating_mode
    /\ \E scan \in Scans :
         sheet' = WriteFileList(sheet, FilterSeq(scan))
    /\ saves' = saves + 1
    /\ events' = Append(events, Event("save_xlsx", NoKey, None))
    /\ pc' = "labeling"
    /\ UNCHANGED <<fs0, populating_mode, disable_labeling, b3_was_empty,
                   file_dict, output_folder, fs, key_index>>
    /\ UNCHANGED <<resizeVars, searchVars, labelVars>>

SkipPopulate ==
    /\ pc = "populate"
    /\ ~populating_mode
    /\ pc' = "labeling"
    /\ UNCHANGED <<fs0, populating_mode, disable_labeling, sheet, b3_was_empty, saves,
                   file_dict, output_folder, fs, key_index, events>>
    /\ UNCHANGED <<resizeVars, searchVars, labelVars>>

\* if not args.disable_labeling: ... (skipped)
SkipLabeling ==
    /\ pc = "labeling"
    /\ disable_labeling
    /\ pc' = "done"
    /\ UNCHANGED <<fs0, populating_mode, disable_labeling, sheet, b3_was_empty, saves,
                   file_dict, output_folder, fs, key_index, events>>
    /\ UNCHANGED <<resizeVars, searchVars, labelVars>>

\* file_dict = load_rows_from_xlsx(args.table_path, sample_text=sample_text)
LoadRows ==
    /\ pc = "labeling"
    /\ ~disable_labeling
    /\ file_dict' = load_rows_from_xlsx(sheet, SampleText)
    /\ pc' = "loaded"
    /\ UNCHANGED <<fs0, populating_mode, disable_labeling, sheet, b3_was_empty, saves,
                   output_folder, fs, key_index, events>>
    /\ UNCHANGED <<resizeVars, searchVars, labelVars>>

\* if file_dict is None: exit(...)
ExitNoFiles ==
    /\ pc = "loaded"
    /\ file_dict.isNone
    /\ pc' = "exited"
    /\ UNCHANGED <<fs0, populating_mode, disable_labeling, sheet, b3_was_empty, saves,
                   file_dict, output_folder, fs, key_index, events>>
    /\ UNCHANGED <<resizeVars, searchVars, labelVars>>

\* (variant: only an empty directory is removed, as os.rmdir would)
ShouldRemoveEmptyOnly(node) == node.kind = "dir" /\ node.files = {}

\* output_folder.exists() and output_folder.is_dir()
ShouldRemove(node) == node.kind = "dir"

\* output_folder = ...; if exists and is_dir: shutil.rmtree(output_folder)
DeleteOutputFolder ==
    /\ pc = "loaded"
    /\ ~file_dict.isNone
    /\ LET folder == OutputFolderOf(file_dict) IN
         /\ output_folder' = folder
         /\ IF ShouldRemove(fs[folder])
            THEN /\ fs' = [fs EXCEPT ![folder] = Absent]
                 /\ events' = Append(events, Event("rmtree", NoKey, None))
            ELSE UNCHANGED <<fs, events>>
    /\ pc' = "mkdir"
    /\ UNCHANGED <<fs0, populating_mode, disable_labeling, sheet, b3_was_empty, saves,
                   file_dict, key_index>>
    /\ UNCHANGED <<resizeVars, searchVars, labelVars>>

\* Path(output_folder).mkdir(parents=True, exist_ok=True)
CreateOutputFolder ==
    /\ pc = "mkdir"
    /\ IF fs[output_folder].kind = "file"
       THEN /\ pc' = "crashed"
            /\ UNCHANGED <<fs, events, key_index>>
       ELSE /\ fs' = [fs EXCEPT ![output_folder] =
                        [kind |-> "dir", files |-> fs[output_folder].files]]
            /\ events' = Append(events, Event("mkdir", NoKey, None))
            /\ key_index' = 1
            /\ pc' = "loop"
    /\ UNCHANGED <<fs0, populating_mode, disable_labeling, sheet, b3_was_empty, saves,
                   file_dict, output_folder>>
    /\ UNCHANGED <<resizeVars, searchVars, labelVars>>

\* for key in file_dict: process_image(key, file_dict[key], output_folder, ...)
\* The call either writes its output file or does not return (the source
\* cannot be opened, or the quality loop does not end).
ProcessImage ==
    /\ pc = "loop"
    /\ key_index <= Len(file_dict.items)
    /\ LET item == file_dict.items[key_index] IN
         /\ events' = Append(events, Event("process_image", item.path, item.text))
         /\ \E returns \in BOOLEAN :
              IF returns
              THEN /\ fs' = [fs EXCEPT ![output_folder] =
                               SaveFile(fs[output_folder], OutputName(item.path),
                                        item.path, item.text)]
                   /\ key_index' = key_index + 1
                   /\ pc' = "loop"
              ELSE /\ pc' = "crashed"
                   /\ UNCHANGED <<fs, key_index>>
    /\ UNCHANGED <<fs0, populating_mode, disable_labeling, sheet, b3_was_empty, saves,
                   file_dict, output_folder>>
    /\ UNCHANGED <<resizeVars, searchVars, labelVars>>

FinishLoop ==
    /\ pc = "loop"
    /\ key_index > Len(file_dict.items)
    /\ pc' = "done"
    /\ UNCHANGED <<fs0, populating_mode, disable_labeling, sheet, b3_was_empty, saves,
                   file_dict, output_folder, fs, key_index, events>>
    /\ UNCHANGED <<resizeVars, searchVars, labelVars>>

Next ==
    \/ LoadDefaults
    \/ WriteFilesInXlsx
    \/ SkipPopulate
    \/ SkipLabeling
    \/ LoadRows
    \/ ExitNoFiles
    \/ DeleteOutputFolder
    \/ CreateOutputFolder
    \/ ProcessImage
    \/ FinishLoop

Spec == Init /\ [][Next]_vars

(* ------------------- process_image: the resize checks ------------------ *)
\* (variant: the height is left unscaled)
ResizeXKeepHeight(size, mx) ==
    IF size[1] > mx THEN <<mx, size[2]>> ELSE size

\* if image.size[0] > max_res_x: resize((max_res_x, size[1] * max_res_x // size[0]))
ResizeX(size, mx) ==
    IF size[1] > mx THEN <<mx, (size[2] * mx) \div size[1]>> ELSE size

\* if image.size[0] > max_res_y: resize((size[0] * max_res_y // size[1], max_res_y))
CheckYFires(size, my) == size[1] > my
ResizeY(size, my) ==
    IF CheckYFires(size, my) THEN <<(size[1] * my) \div size[2], my>> ELSE size

InitResize ==
    /\ rpc = "open"
    /\ orig_size = <<0, 0>>
    /\ image_size = <<0, 0>>
    /\ size_after_x = <<0, 0>>
    /\ max_res_x \in 1..MaxRes
    /\ max_res_y \in 1..MaxRes
    /\ DriverIdle /\ SearchIdle /\ LabelIdle

\* image = Image.open(path)
OpenImage ==
    /\ rpc = "open"
    /\ \E w \in 1..MaxDim, h \in 1..MaxDim :
         /\ orig_size' = <<w, h>>
         /\ image_size' = <<w, h>>
    /\ rpc' = "check_x"
    /\ UNCHANGED <<size_after_x, max_res_x, max_res_y>>
    /\ UNCHANGED <<driverVars, searchVars, labelVars>>

\* A resize to a size with a zero side either raises or yields that size,
\* depending on the imaging library's version.
CheckXAxis ==
    /\ rpc = "check_x"
    /\ LET new == ResizeX(image_size, max_res_x) IN
         \E raises \in {FALSE} \cup (IF new[2] = 0 THEN {TRUE} ELSE {}) :
            IF raises
            THEN /\ rpc' = "crashed"
                 /\ UNCHANGED <<image_size, size_after_x>>
            ELSE /\ image_size' = new
                 /\ size_after_x' = new
                 /\ rpc' = "check_y"
    /\ UNCHANGED <<orig_size, max_res_x, max_res_y>>
    /\ UNCHANGED <<driverVars, searchVars, labelVars>>

\* The division by image.size[1] raises ZeroDivisionError on a zero height.
CheckYAxis ==
    /\ rpc = "check_y"
    /\ IF CheckYFires(image_size, max_res_y) /\ image_size[2] = 0
       THEN /\ rpc' = "crashed"
            /\ UNCHANGED image_size
       ELSE LET new == ResizeY(image_size, max_res_y) IN
            \E raises \in {FALSE} \cup (IF new[1] = 0 THEN {TRUE} ELSE {}) :
               IF raises
               THEN /\ rpc' = "crashed"
                    /\ UNCHANGED image_size
               ELSE /\ image_size' = new
                    /\ rpc' = "resized"
    /\ UNCHANGED <<orig_size, size_after_x, max_res_x, max_res_y>>
    /\ UNCHANGED <<driverVars, searchVars, labelVars>>

NextResize ==
    \/ OpenImage
    \/ CheckXAxis
    \/ CheckYAxis

SpecResize == InitResize /\ [][NextResize]_vars

(* --------- process_image: quality loop, label drawing and save --------- *)
\* Byte counts an encoding may have (out.tell() of check_size).
EncodedSizes == {1} \cup { m * BytesPerMb + d : m \in 1..MaxMb, d \in {0, 1} }

\* (variant: >= in the loop condition)
LoopContinuesAtBudget(size, mb) == size >= mb * 1024 * 1024

\* while check_size(image, quality=q) > max_size * 1024 * 1024
LoopContinues(size, mb) == size > mb * 1024 * 1024

InitSearch ==
    /\ spc = "search"
    /\ max_size \in 0..MaxMb
    /\ q = StartQuality
    /\ last_size = 0
    /\ tested = <<>>
    /\ bitmap = "resized"
    /\ checked_bitmap = "none"
    /\ printed_size = 0
    /\ file_size = 0
    /\ saved_bitmap = "none"
    /\ DriverIdle /\ ResizeIdle /\ LabelIdle

\* One evaluation of the loop condition, and the loop body when it holds.
\* tested records each quality handed to the encoder and whether the bytes
\* it produced exceeded the budget.
SizeLoop ==
    /\ spc = "search"
    /\ Len(tested) < MaxTests
    /\ \E size \in EncodedSizes :
         /\ last_size' = size
         /\ tested' = Append(tested, [quality |-> q,
                                      over |-> size > max_size * BytesPerMb])
         /\ checked_bitmap' = bitmap
         /\ IF LoopContinues(size, max_size)
            THEN /\ q' = q - QualityStep
                 /\ spc' = "search"
            ELSE /\ q' = q
                 /\ spc' = "label"
    /\ UNCHANGED <<max_size, bitmap, printed_size, file_size, saved_bitmap>>
    /\ UNCHANGED <<driverVars, resizeVars, labelVars>>

\* draw.rectangle(...); draw.text(...): the bitmap is changed in place
DrawLabel ==
    /\ spc = "label"
    /\ bitmap' = "labelled"
    /\ spc' = "print"
    /\ UNCHANGED <<max_size, q, last_size, tested, checked_bitmap,
                   printed_size, file_size, saved_bitmap>>
    /\ UNCHANGED <<driverVars, resizeVars, labelVars>>

\* print(... check_size(image, quality=q) ...): encodes the bitmap as it is now;
\* the same bitmap at the same quality encodes to the same bytes.
PrintStatus ==
    /\ spc = "print"
    /\ \E size \in EncodedSizes :
         /\ (bitmap = checked_bitmap) => (size = last_size)
         /\ printed_size' = size
    /\ spc' = "save"
    /\ UNCHANGED <<max_size, q, last_size, tested, bitmap, checked_bitmap,
                   file_size, saved_bitmap>>
    /\ UNCHANGED <<driverVars, resizeVars, labelVars>>

\* image.save(output_file, format='jpeg', quality=q)
SaveImage ==
    /\ spc = "save"
    /\ file_size' = printed_size
    /\ saved_bitmap' = bitmap
    /\ spc' = "written"
    /\ UNCHANGED <<max_size, q, last_size, tested, bitmap, checked_bitmap,
                   printed_size>>
    /\ UNCHANGED <<driverVars, resizeVars, labelVars>>

NextSearch ==
    \/ SizeLoop
    \/ DrawLabel
    \/ PrintStatus
    \/ SaveImage

SpecSearch == InitSearch /\ [][NextSearch]_vars

(* ------------------- process_image: the label geometry ----------------- *)
null_one(number) == IF number = 0 THEN 1 ELSE 0

\* rectangle_coords = ((.., ..), (.., ..))
RectangleCoords(size, ts, fsize, c) ==
    << << (size[1] - ts[1] - fsize) * c[1],
          (size[2] - ts[2] - fsize) * c[2] >>,
       << (size[1] - 1) * c[1] + (ts[1] + fsize) * null_one(c[1]),
          (size[2] - 1) * c[2] + (ts[2] + fsize) * null_one(c[2]) >> >>

\* (variant: the text is offset by the whole font_size)
TextOffsetFull(fsize) == fsize

\* draw.text((rectangle_coords[0][0] + font_size // 2, ...[0][1] + font_size // 2), ...)
TextOffset(fsize) == fsize \div 2
TextOrigin(rect, fsize) == <<rect[1][1] + TextOffset(fsize), rect[1][2] + TextOffset(fsize)>>

InitLabel ==
    /\ lpc = "measure"
    /\ label_image \in (1..MaxDim) \X (1..MaxDim)
    /\ font_size \in 1..MaxFont
    /\ corner \in {0, 1} \X {0, 1}
    /\ text_size = <<0, 0>>
    /\ rectangle_coords = <<<<0, 0>>, <<0, 0>>>>
    /\ text_xy = <<0, 0>>
    /\ DriverIdle /\ ResizeIdle /\ SearchIdle

\* text_size = draw.textsize(text, font)
MeasureText ==
    /\ lpc = "measure"
    /\ text_size' \in (0..MaxText) \X (0..MaxText)
    /\ lpc' = "rectangle"
    /\ UNCHANGED <<label_image, font_size, corner, rectangle_coords, text_xy>>
    /\ UNCHANGED <<driverVars, resizeVars, searchVars>>

\* rectangle_coords = ...; draw.rectangle(rectangle_coords, ...)
DrawRectangle ==
    /\ lpc = "rectangle"
    /\ rectangle_coords' = RectangleCoords(label_image, text_size, font_size, corner)
    /\ lpc' = "text"
    /\ UNCHANGED <<label_image, text_size, font_size, corner, text_xy>>
    /\ UNCHANGED <<driverVars, resizeVars, searchVars>>

\* draw.text(...)
DrawText ==
    /\ lpc = "text"
    /\ text_xy' = TextOrigin(rectangle_coords, font_size)
    /\ lpc' = "drawn"
    /\ UNCHANGED <<label_image, text_size, font_size, corner, rectangle_coords>>
    /\ UNCHANGED <<driverVars, resizeVars, searchVars>>

NextLabel ==
    \/ MeasureText
    \/ DrawRectangle
    \/ DrawText

SpecLabel == InitLabel /\ [][NextLabel]_vars

(* ============================= properties ============================== *)
Budget == max_size * BytesPerMb
Ops == [k \in 1..Len(events) |-> events[k].op]
Calls == { k \in 1..Len(events) : events[k].op = "process_image" }
Terminal == pc \in {"done", "exited", "crashed"}
Loaded == ~disable_labeling /\ pc \in {"loaded", "exited", "mkdir", "loop", "done", "crashed"}

\* C1: whenever process_image has been called, exactly one mkdir of the output
\* folder precedes the first call, a removal (if any) precedes that mkdir,
\* nothing is removed or created after it, and from the removal step on the
\* output folder holds no file of a previous run.
C1_OutputRecreatedBeforeProcessing ==
    /\ \A k \in Calls :
         /\ Cardinality({ m \in 1..Len(events) : events[m].op = "mkdir" }) = 1
         /\ Cardinality({ m \in 1..Len(events) : events[m].op = "rmtree" }) <= 1
         /\ \E m \in 1..(k - 1) : events[m].op = "mkdir"
         /\ \A m \in 1..Len(events) :
              events[m].op = "rmtree" => \E n \in (m + 1)..(k - 1) : events[n].op = "mkdir"
    /\ pc = "mkdir" => fs[output_folder].kind # "dir"
    /\ (pc = "loop" \/ Calls # {} \/ (pc = "done" /\ ~disable_labeling)) =>
         /\ fs[output_folder].kind = "dir"
         /\ \A f \in fs[output_folder].files : f.run = "current"

C1_Witness ==
    /\ pc = "done"
    /\ Ops = <<"rmtree", "mkdir", "process_image", "process_image">>

\* C2: after the resize stage the image is no wider and no taller than the
\* source, and a source already within max_res_x by max_res_y is unchanged.
C2_NeverUpscales ==
    rpc = "resized" =>
        /\ image_size[1] <= orig_size[1]
        /\ image_size[2] <= orig_size[2]
        /\ (orig_size[1] <= max_res_x /\ orig_size[2] <= max_res_y
              => image_size = orig_size)

C4_HighestTestedQualityWithinBudget ==
    spc \in {"label", "print", "save", "written"} =>
        /\ last_size <= Budget
        /\ tested # <<>>
        /\ tested[Len(tested)].quality = q
        /\ ~tested[Len(tested)].over
        /\ \A i \in 1..Len(tested) :
             tested[i].quality = StartQuality - QualityStep * (i - 1)
        /\ \A i \in 1..(Len(tested) - 1) : tested[i].over

C4_Witness ==
    /\ spc = "label"
    /\ q = 80
    /\ max_size = 1
    /\ last_size = BytesPerMb

\* C5: no negative quality is ever handed to the encoder: the loop stops
\* decrementing at the first non-positive quality.
C5_NoNegativeQuality ==
    /\ q >= 0
    /\ \A i \in 1..Len(tested) : tested[i].quality >= 0

\* C6: the written file is within the byte budget, and the bitmap saved is
\* the bitmap whose encoding the quality loop measured.
C6_OutputWithinBudget ==
    spc = "written" =>
        /\ file_size <= Budget
        /\ saved_bitmap = checked_bitmap

\* C7 as stated: with B3 empty and labeling enabled, whatever the other
\* flags, main ends in the 'no files' exit having removed, created, processed
\* and saved nothing.
C7_EmptyListNoWritesAnyFlags ==
    (b3_was_empty /\ ~disable_labeling /\ Terminal) =>
        /\ pc = "exited"
        /\ events = <<>>
        /\ saves = 0

\* C7 amended: with B3 empty, labeling enabled and populate mode off, main
\* ends in the 'no files' exit having removed, created, processed and saved
\* nothing; and the 'no files' exit never follows a removal, a creation or a
\* process_image call.
C7_EmptyListNoWritesWithoutPopulate ==
    /\ (b3_was_empty /\ ~populating_mode) =>
         /\ events = <<>>
         /\ saves = 0
         /\ fs = fs0
         /\ pc \notin {"mkdir", "loop", "crashed"}
         /\ (~disable_labeling /\ Terminal) => pc = "exited"
    /\ pc = "exited" =>
         \A k \in 1..Len(events) : events[k].op = "save_xlsx"

C7_Witness ==
    /\ pc = "exited"
    /\ b3_was_empty
    /\ ~populating_mode
    /\ sheet[4].B # NoPath
    /\ \E d \in Dirs : fs[d].kind = "dir"

\* The leading rows of the worksheet: those with no empty path cell at or above them.
LeadingRows ==
    { r \in DOMAIN sheet : \A r2 \in DOMAIN sheet : r2 <= r => sheet[r2].B # NoPath }
RowsOf(p) == { r \in LeadingRows : Path(sheet[r].B) = p }
FirstRowOf(p) == CHOOSE r \in RowsOf(p) : \A r2 \in RowsOf(p) : r <= r2
LastRowOf(p) == CHOOSE r \in RowsOf(p) : \A r2 \in RowsOf(p) : r2 <= r
CaptionOf(r) == IF sheet[r].C = None THEN SampleText ELSE sheet[r].C
ProcessedItems ==
    [k \in 1..Cardinality(Calls) |->
        LET e == events[CHOOSE m \in Calls :
                          Cardinality({ n \in Calls : n <= m }) = k]
        IN  [path |-> e.path, text |-> e.text]]

\* C9 as stated: the loaded list has one item per leading row, in row order,
\* with that row's path and caption (or the default), and a completed run
\* has called process_image once per leading row.
C9_OneItemPerRow ==
    Loaded =>
        /\ Len(file_dict.items) = Cardinality(LeadingRows)
        /\ \A r \in LeadingRows :
             /\ r - 2 \in 1..Len(file_dict.items)
             /\ file_dict.items[r - 2] = [path |-> Path(sheet[r].B), text |-> CaptionOf(r)]
        /\ pc = "done" => Cardinality(Calls) = Cardinality(LeadingRows)

\* C9 amended: the loaded list has one item per distinct path among the
\* leading rows, ordered by the first row of each path, carrying the caption
\* (or the default) of the last row with that path; it is None exactly when
\* there is no leading row; a completed run has called process_image once per
\* item, in that order.
C9_OneItemPerDistinctPath ==
    Loaded =>
        LET items == file_dict.items IN
        /\ file_dict.isNone <=> LeadingRows = {}
        /\ Len(items) = Cardinality({ Path(sheet[r].B) : r \in LeadingRows })
        /\ \A r \in LeadingRows : \E k \in 1..Len(items) : items[k].path = Path(sheet[r].B)
        /\ \A k \in 1..Len(items) :
             /\ RowsOf(items[k].path) # {}
             /\ items[k].text = CaptionOf(LastRowOf(items[k].path))
        /\ \A k, l \in 1..Len(items) :
             k < l => FirstRowOf(items[k].path) < FirstRowOf(items[l].path)
        /\ (pc = "done" /\ ~disable_labeling) => ProcessedItems = items

C9_Witness ==
    /\ pc = "done"
    /\ Cardinality(LeadingRows) = 2
    /\ Len(file_dict.items) = 1
    /\ sheet[3].C = "c1"
    /\ sheet[4].C = None
    /\ Cardinality(Calls) = 1

\* the part of a file name before its last dot (the whole name without a dot)
UpToLastDot(name) ==
    IF Len(name) > 1 THEN [i \in 1..(Len(name) - 1) |-> name[i]] ELSE name
OutputFiles == fs[output_folder].files

\* C10 as stated: after a completed run the output folder holds one file per
\* processed work item, each in the 'output' folder beside its own source.
C10_OneOutputPerItemBesideSource ==
    (pc = "done" /\ ~disable_labeling) =>
        /\ Cardinality(OutputFiles) = Len(file_dict.items)
        /\ \A k \in 1..Len(file_dict.items) :
             output_folder = file_dict.items[k].path.dir

\* C10 amended: after a completed run the output folder is the 'output'
\* folder beside the first listed source and holds one file per distinct
\* name-up-to-the-last-dot among the work items; two work items share an
\* output file exactly when their names agree up to the last dot, and the
\* file then holds the later item.
C10_OneOutputPerStemBesideFirstSource ==
    (pc = "done" /\ ~disable_labeling) =>
        LET items == file_dict.items IN
        /\ output_folder = items[1].path.dir
        /\ \A d \in Dirs \ {output_folder} : fs[d] = fs0[d]
        /\ Cardinality(OutputFiles) =
             Cardinality({ UpToLastDot(items[k].path.name) : k \in 1..Len(items) })
        /\ \A f \in OutputFiles :
             /\ f.run = "current"
             /\ f.name.tail = "_edit.jpg"
             /\ \E k \in 1..Len(items) :
                  /\ f.name.stem = UpToLastDot(items[k].path.name)
                  /\ Path(f.src) = items[k].path
                  /\ f.text = items[k].text
                  /\ \A l \in (k + 1)..Len(items) :
                       UpToLastDot(items[l].path.name) # f.name.stem
        /\ \A k \in 1..Len(items) :
             \E f \in OutputFiles : f.name.stem = UpToLastDot(items[k].path.name)

C10_Witness ==
    /\ pc = "done"
    /\ Len(file_dict.items) = 2
    /\ file_dict.items[1].path = [dir |-> "d1", name |-> <<"a", "jpg">>]
    /\ file_dict.items[2].path = [dir |-> "d1", name |-> <<"a", "png">>]
    /\ Cardinality(OutputFiles) = 1

\* Pixel columns / rows of the rectangle (corner coordinates inclusive) lying
\* beyond the text box, which starts at text_xy and is text_size wide and high.
MarginLeft == text_xy[1] - rectangle_coords[1][1]
MarginTop == text_xy[2] - rectangle_coords[1][2]
MarginRight == rectangle_coords[2][1] - (text_xy[1] + text_size[1] - 1)
MarginBottom == rectangle_coords[2][2] - (text_xy[2] + text_size[2] - 1)

\* C8 as stated: for every corner and every font_size > 0 the rectangle
\* leaves at least one pixel around the text box on all four sides.
C8_MarginAllFontSizes ==
    lpc = "drawn" =>
        /\ MarginLeft >= 1 /\ MarginTop >= 1
        /\ MarginRight >= 1 /\ MarginBottom >= 1

\* C8 amended: for every corner and every font_size >= 2 the rectangle
\* leaves at least one pixel around the text box on all four sides.
C8_MarginFontSizeAtLeastTwo ==
    (lpc = "drawn" /\ font_size >= 2) =>
        /\ MarginLeft >= 1 /\ MarginTop >= 1
        /\ MarginRight >= 1 /\ MarginBottom >= 1

C8_Witness ==
    /\ lpc = "drawn"
    /\ font_size = 2
    /\ corner = <<1, 0>>
    /\ text_size = <<2, 1>>
    /\ MarginRight = 1

====
